---------------------------- MODULE Spec2Model ----------------------------
(***************************************************************************)
(* Basic blocks, control-flow graph, dead-code elimination and local value *)
(* numbering of the briltool package (src/my-cfg/briltool).                *)
(*                                                                         *)
(* A Python dict is an insertion-ordered mapping.  label_map, whose order  *)
(* the code relies on, is a sequence of [id, instrs] entries; the other    *)
(* dicts, whose order no operation reads, are TLA+ functions.              *)
(***************************************************************************)
EXTENDS Integers, Sequences, FiniteSets, TLC

VARIABLES
    body,               \* the function's instruction stream (func["instrs"])
    phase,              \* "start" | "blocks" | "emitted" | "failed" | "driver"
    label_map,          \* BlockInfo.label_map: block id -> instructions, ordered
    label_to_block_id,  \* BlockInfo.label_to_block_id: label -> block id
    successors,         \* BlockInfo.successors
    predecessors,       \* BlockInfo.predecessors
    err,                \* the exception that ended the run, or None
    out,                \* the instrs list output_json_prog emitted
    last,               \* the operation applied last to the BlockInfo
    rep,                \* how many times in a row `last` has been applied
    run                 \* the call of run_driver: its inputs and its outcome

vars == <<body, phase, label_map, label_to_block_id, successors, predecessors,
          err, out, last, rep, run>>

-----------------------------------------------------------------------------
(* Bounds of the model. *)
MaxCfgLen == 4
MaxDceLen == 4
MaxLvnLen == 3
MaxFailLen == 4
MaxRep == 2

-----------------------------------------------------------------------------
(* ir.py: the instruction model. *)

\* An absent key of an instruction dict (dict.get returns None).
None == "None"

FuncName == "main"

TERMINATORS == {"jmp", "br", "ret"}

COMMUTATIVE == {"add", "mul"}

\* An instruction dict with the keys the core reads; an absent "value" is <<>>.
Instr(op, dest, args, labels, value) ==
    [op |-> op, dest |-> dest, args |-> args, labels |-> labels,
     label |-> None, value |-> value]

LabelInstr(l) ==
    [op |-> None, dest |-> None, args |-> <<>>, labels |-> <<>>,
     label |-> l, value |-> <<>>]

is_label(instr) == instr.label # None /\ instr.op = None

get_dest(instr) == instr.dest

get_args(instr) == instr.args

-----------------------------------------------------------------------------
(* Ordered-dict helpers for label_map. *)

SeqToSet(q) == {q[i] : i \in 1..Len(q)}

Keys(m) == {m[i].id : i \in 1..Len(m)}

IndexOf(m, k) == CHOOSE i \in 1..Len(m) : m[i].id = k

\* m[k] = v : an existing key keeps its position, a new key is appended.
DictSet(m, k, v) ==
    IF k \in Keys(m)
    THEN [m EXCEPT ![IndexOf(m, k)].instrs = v]
    ELSE Append(m, [id |-> k, instrs |-> v])

-----------------------------------------------------------------------------
(* cfg.py: form_blocks. *)

\* f"{func_name}::b{i}"
block_id_generator(func_name, i) == func_name \o "::b" \o ToString(i)

\* The state of form_blocks' loop: the two dicts, the generator's counter and
\* the accumulator with its pending label.
FBInit ==
    [label_map |-> <<>>, label_to_block_id |-> [l \in {} |-> None], gen |-> 0,
     current_block |-> <<>>, current_label |-> None]

\* close_block without its early return: it stores the empty accumulator too.
close_block_StoresEmpty(st, name) ==
    IF st.current_label # None
    THEN [st EXCEPT
            !.label_to_block_id =
                [l \in (DOMAIN @) \cup {st.current_label} |->
                    IF l = st.current_label
                    THEN name \o "::" \o st.current_label ELSE @[l]],
            !.label_map =
                DictSet(@, name \o "::" \o st.current_label, st.current_block),
            !.current_block = <<>>,
            !.current_label = None]
    ELSE [st EXCEPT
            !.gen = @ + 1,
            !.label_map =
                DictSet(@, block_id_generator(name, st.gen), st.current_block),
            !.current_block = <<>>,
            !.current_label = None]

close_block(st, name) ==
    IF st.current_block = <<>>
    THEN st
    ELSE IF st.current_label # None
         THEN LET block_name == name \o "::" \o st.current_label IN
              [st EXCEPT
                 !.label_to_block_id =
                     [l \in (DOMAIN @) \cup {st.current_label} |->
                         IF l = st.current_label THEN block_name ELSE @[l]],
                 !.label_map = DictSet(@, block_name, st.current_block),
                 !.current_block = <<>>,
                 !.current_label = None]
         ELSE LET block_name == block_id_generator(name, st.gen) IN
              [st EXCEPT
                 !.gen = @ + 1,
                 !.label_map = DictSet(@, block_name, st.current_block),
                 !.current_block = <<>>,
                 !.current_label = None]

\* FBStep closing the block after every instruction, terminator or not.
FBStep_CloseAlways(st, instr, name) ==
    IF is_label(instr)
    THEN [close_block(st, name) EXCEPT !.current_label = instr.label]
    ELSE close_block([st EXCEPT !.current_block = Append(@, instr)], name)

\* One iteration of `for instr in body`.
FBStep(st, instr, name) ==
    IF is_label(instr)
    THEN [close_block(st, name) EXCEPT !.current_label = instr.label]
    ELSE LET a == [st EXCEPT !.current_block = Append(@, instr)] IN
         IF instr.op \in TERMINATORS THEN close_block(a, name) ELSE a

RECURSIVE FBLoop(_, _, _, _)
FBLoop(st, instrs, i, name) ==
    IF i > Len(instrs) THEN st
    ELSE FBLoop(FBStep(st, instrs[i], name), instrs, i + 1, name)

form_blocks(instrs, name) ==
    LET st == close_block(FBLoop(FBInit, instrs, 1, name), name) IN
    [function_name |-> name,
     label_map |-> st.label_map,
     label_to_block_id |-> st.label_to_block_id]

-----------------------------------------------------------------------------
(* cfg.py: form_cfg. *)

\* The dict a function f is, with f[k] set to v.
Put(f, k, v) == [x \in (DOMAIN f) \cup {k} |-> IF x = k THEN v ELSE f[x]]

\* [blks.label_to_block_id[t] for t in last_instr["labels"]]
ResolveTargets(l2b, labels) == [i \in 1..Len(labels) |-> l2b[labels[i]]]

\* The lookup blks.label_to_block_id[t] raises KeyError for some target.
Unresolved(l2b, labels) == \E i \in 1..Len(labels) : labels[i] \notin DOMAIN l2b

\* AddPreds with the two roles swapped: predecessors[label] receives t.
RECURSIVE AddPreds_Swapped(_, _, _, _)
AddPreds_Swapped(pred, targets, i, label) ==
    IF i > Len(targets) THEN pred
    ELSE LET old == IF label \in DOMAIN pred THEN pred[label] ELSE <<>>
         IN AddPreds_Swapped(Put(pred, label, Append(old, targets[i])),
                             targets, i + 1, label)

\* for t in targets: blks.predecessors.setdefault(t, []).append(label)
RECURSIVE AddPreds(_, _, _, _)
AddPreds(pred, targets, i, label) ==
    IF i > Len(targets) THEN pred
    ELSE LET t == targets[i]
             old == IF t \in DOMAIN pred THEN pred[t] ELSE <<>>
         IN AddPreds(Put(pred, t, Append(old, label)), targets, i + 1, label)

\* block[-1] if block else {}, then .get("op")
\* The last op with an empty block taken for one that returns.
LastOp_EmptyReturns(block) ==
    IF block = <<>> THEN "ret" ELSE block[Len(block)].op

LastOp(block) == IF block = <<>> THEN None ELSE block[Len(block)].op

\* Targets with the last block falling through to the first one.
Targets_Wrap(lm, l2b, idx) ==
    LET block == lm[idx].instrs
        op == LastOp(block)
    IN IF op \in {"jmp", "br"} THEN ResolveTargets(l2b, block[Len(block)].labels)
       ELSE IF op = "ret" THEN <<>>
       ELSE IF idx + 1 <= Len(lm) THEN <<lm[idx + 1].id>> ELSE <<lm[1].id>>

\* The successors of the block at index idx of the ordered block list.
Targets(lm, l2b, idx) ==
    LET block == lm[idx].instrs
        op == LastOp(block)
    IN IF op \in {"jmp", "br"} THEN ResolveTargets(l2b, block[Len(block)].labels)
       ELSE IF op = "ret" THEN <<>>
       ELSE IF idx + 1 <= Len(lm) THEN <<lm[idx + 1].id>> ELSE <<>>

\* for idx, label in enumerate(labels): ...  A KeyError leaves the loop with the
\* maps as the earlier iterations made them.
RECURSIVE CfgLoop(_, _, _, _)
CfgLoop(st, lm, l2b, idx) ==
    IF idx > Len(lm) THEN st
    ELSE LET block == lm[idx].instrs
             op == LastOp(block)
         IN IF op \in {"jmp", "br"} /\ Unresolved(l2b, block[Len(block)].labels)
            THEN [st EXCEPT !.err = "KeyError"]
            ELSE LET targets == Targets(lm, l2b, idx) IN
                 CfgLoop([st EXCEPT
                            !.successors = Put(@, lm[idx].id, targets),
                            !.predecessors = AddPreds(@, targets, 1, lm[idx].id)],
                         lm, l2b, idx + 1)

\* for label in blks.label_map: setdefault(label, []) on both maps
SetDefaults(f, lm) ==
    [k \in (DOMAIN f) \cup Keys(lm) |-> IF k \in DOMAIN f THEN f[k] ELSE <<>>]

EmptyMap == [k \in {} |-> <<>>]

\* form_cfg computing the id of a target, f"{name}::{t}", where the label has
\* no entry, instead of looking it up.
form_cfg_ComputedId(lm, l2b) ==
    LET all == UNION {UNION {SeqToSet(lm[b].instrs[i].labels) :
                               i \in 1..Len(lm[b].instrs)} : b \in 1..Len(lm)}
        total == [l \in all \cup DOMAIN l2b |->
                    IF l \in DOMAIN l2b THEN l2b[l] ELSE FuncName \o "::" \o l]
        st == CfgLoop([successors |-> EmptyMap, predecessors |-> EmptyMap,
                       err |-> None], lm, total, 1)
    IN [st EXCEPT !.successors = SetDefaults(@, lm),
                  !.predecessors = SetDefaults(@, lm)]

\* Both maps are cleared first, whatever they held.
form_cfg(lm, l2b) ==
    LET st == CfgLoop([successors |-> EmptyMap, predecessors |-> EmptyMap,
                       err |-> None], lm, l2b, 1)
    IN IF st.err # None THEN st
       ELSE [st EXCEPT !.successors = SetDefaults(@, lm),
                       !.predecessors = SetDefaults(@, lm)]

-----------------------------------------------------------------------------
(* passes/dce.py: simple_dce. *)

\* used: the arguments of every instruction of every block
UsedVars(lm) ==
    UNION {UNION {SeqToSet(get_args(lm[b].instrs[i])) :
                    i \in 1..Len(lm[b].instrs)} : b \in 1..Len(lm)}

\* new_block taking only the instructions whose destination is used.
Kept_UsedDestOnly(instr, used) == get_dest(instr) \in used

\* An instruction the pass appends to new_block.
Kept(instr, used) == get_dest(instr) = None \/ get_dest(instr) \in used

\* new_block of one block
FilterBlock(block, used) == SelectSeq(block, LAMBDA instr : Kept(instr, used))

\* One iteration of `while repeat`: every block replaced by its new_block.
SimpleDcePass(lm) ==
    LET used == UsedVars(lm) IN
    [b \in 1..Len(lm) |-> [lm[b] EXCEPT !.instrs = FilterBlock(@, used)]]

\* simple_dce without the `while repeat` loop: a single pass.
simple_dce_OnePass(lm) == SimpleDcePass(lm)

\* repeat is set when some instruction was left out of its new_block.
RECURSIVE simple_dce(_)
simple_dce(lm) ==
    LET new == SimpleDcePass(lm)
        repeat == \E b \in 1..Len(lm) : Len(new[b].instrs) < Len(lm[b].instrs)
    IN IF repeat THEN simple_dce(new) ELSE new

-----------------------------------------------------------------------------
(* passes/dce.py: local_dce.                                               *)
(* One scan walks the snapshot list(block).  An instruction object is      *)
(* named by its position in the snapshot: candidates maps a variable to    *)
(* such a position, and `alive` lists the positions still in the block.    *)
(* block.remove(v) deletes the first element that EQUALS v.                *)

\* The position block.remove(snap[c]) deletes, or 0 when no element equals it
\* (list.remove raises ValueError).
RemovePos(snap, alive, c) ==
    IF \E k \in 1..Len(alive) : snap[alive[k]] = snap[c]
    THEN alive[CHOOSE k \in 1..Len(alive) :
                 /\ snap[alive[k]] = snap[c]
                 /\ \A j \in 1..(k - 1) : snap[alive[j]] # snap[c]]
    ELSE 0

\* for arg in instr.get("args", []): candidates.pop(arg, None)
PopArgs(candidates, instr) ==
    [v \in (DOMAIN candidates) \ SeqToSet(instr.args) |-> candidates[v]]

\* The body of `for instr in list(block)` for the snapshot element at i.
\* events records, for each removal, the candidate and the position deleted.
LDStep(st, snap, i) ==
    LET instr == snap[i]
        cands == PopArgs(st.candidates, instr)
        d == get_dest(instr)
    IN IF d = None THEN [st EXCEPT !.candidates = cands]
       ELSE IF d \in DOMAIN cands
       THEN LET r == RemovePos(snap, st.alive, cands[d]) IN
            IF r = 0
            THEN [st EXCEPT !.candidates = cands, !.err = "ValueError"]
            ELSE [st EXCEPT
                    !.alive = SelectSeq(@, LAMBDA p : p # r),
                    !.events = Append(@, [cand |-> cands[d], removed |-> r]),
                    !.repeat = TRUE,
                    !.candidates = Put(cands, d, i)]
       ELSE [st EXCEPT !.candidates = Put(cands, d, i)]

RECURSIVE LDScan(_, _, _)
LDScan(st, snap, i) ==
    IF i > Len(snap) \/ st.err # None THEN st
    ELSE LDScan(LDStep(st, snap, i), snap, i + 1)

\* One iteration of `while repeat` on the block as it stands.
LocalDcePass(snap) ==
    LDScan([alive |-> [p \in 1..Len(snap) |-> p],
            candidates |-> [v \in {} |-> 0],
            events |-> <<>>, repeat |-> FALSE, err |-> None], snap, 1)

BlockOf(snap, alive) == [k \in 1..Len(alive) |-> snap[alive[k]]]

\* local_dce without the `while repeat` loop: a single scan.
LocalDceFrom_OneScan(block, trace) ==
    LET st == LocalDcePass(block) IN
    [block |-> BlockOf(block, st.alive),
     trace |-> Append(trace, [snap |-> block, events |-> st.events]),
     err |-> st.err]

\* local_dce: the block it leaves, and for every scan its snapshot and removals.
RECURSIVE LocalDceFrom(_, _)
LocalDceFrom(block, trace) ==
    LET st == LocalDcePass(block)
        t == Append(trace, [snap |-> block, events |-> st.events])
        new == BlockOf(block, st.alive)
    IN IF st.err # None THEN [block |-> new, trace |-> t, err |-> st.err]
       ELSE IF st.repeat THEN LocalDceFrom(new, t)
       ELSE [block |-> new, trace |-> t, err |-> None]

local_dce(block) == LocalDceFrom(block, <<>>)

\* for block in blks.label_map.values(): local_dce(block)
dce_local_only(lm) ==
    [b \in 1..Len(lm) |-> [lm[b] EXCEPT !.instrs = local_dce(@).block]]

dce_global_only(lm) == simple_dce(lm)

dce_both(lm) == dce_local_only(simple_dce(lm))

-----------------------------------------------------------------------------
(* passes/lvn.py. *)

\* LVNTable(): expr2id, id2canon and current_status are dicts.
LVNTable ==
    [expr2id |-> [e \in {} |-> 0], id2canon |-> [n \in {} |-> None],
     current_status |-> [v \in {} |-> 0], next_id |-> 0]

\* The table after _ensure_var_id(var, lvn); the id it returns is then
\* current_status[var].
_ensure_var_id(var, lvn) ==
    IF var \notin DOMAIN lvn.current_status
    THEN [lvn EXCEPT
            !.next_id = @ + 1,
            !.current_status = Put(@, var, lvn.next_id),
            !.id2canon = IF lvn.next_id \in DOMAIN @ THEN @
                         ELSE Put(@, lvn.next_id, var)]
    ELSE lvn

RECURSIVE EnsureAll(_, _, _)
EnsureAll(args, i, lvn) ==
    IF i > Len(args) THEN lvn
    ELSE EnsureAll(args, i + 1, _ensure_var_id(args[i], lvn))

\* sorted() left out: the keys stay in argument order.
SortedKeys_Unsorted(keys) == keys

\* tuple(sorted(keys)) for keys ("v", id): ascending ids.
RECURSIVE SortedKeys(_)
SortedKeys(keys) ==
    IF keys = <<>> THEN <<>>
    ELSE LET m == CHOOSE i \in 1..Len(keys) :
                    \A j \in 1..Len(keys) : keys[i][2] <= keys[j][2]
             rest == [k \in 1..(Len(keys) - 1) |->
                        IF k < m THEN keys[k] ELSE keys[k + 1]]
         IN <<keys[m]>> \o SortedKeys(rest)

\* The operations _get_expr builds a key for (besides const and id).
KeyedOps == {"add", "mul", "sub", "div", "print"}

\* _get_expr raises ValueError for op.
Unsupported(op) == op \notin ({"const", "id"} \cup KeyedOps)

\* The key _get_expr returns, for a supported op other than id; the table is
\* the one after its _ensure_var_id calls.
_get_expr(op, instr, lvn) ==
    IF op = "const" THEN <<op, << <<"c", instr.value[1]>> >> >>
    ELSE LET keys == [i \in 1..Len(instr.args) |->
                        <<"v", lvn.current_status[instr.args[i]]>>]
         IN <<op, IF op \in COMMUTATIVE THEN SortedKeys(keys) ELSE keys>>

\* The canonical variable of a's number, whatever it holds now.
CanonOf_Unguarded(a, l2) ==
    LET vid == l2.current_status[a]
    IN IF vid \in DOMAIN l2.id2canon THEN l2.id2canon[vid] ELSE a

\* The argument the canonicalization loop appends for a, l2 being the table
\* after _ensure_var_id(a, lvn).
CanonOf(a, l2) ==
    LET vid == l2.current_status[a]
        canon == IF vid \in DOMAIN l2.id2canon THEN l2.id2canon[vid] ELSE a
    IN IF /\ canon # a
          /\ canon \in DOMAIN l2.current_status
          /\ l2.current_status[canon] = vid
       THEN canon ELSE a

\* The canonicalization loop `for a in args`: the table and rewritten_args.
RECURSIVE CanonArgs(_, _, _, _)

CanonArgsNext(args, i, l2, rewritten_args) ==
    CanonArgs(args, i + 1, l2, Append(rewritten_args, CanonOf(args[i], l2)))

CanonArgs(args, i, lvn, rewritten_args) ==
    IF i > Len(args) THEN [lvn |-> lvn, args |-> rewritten_args]
    ELSE CanonArgsNext(args, i, _ensure_var_id(args[i], lvn), rewritten_args)

\* What one iteration of `for instr in block` leaves: the instruction as
\* rewritten, the table, and the exception raised, if any.
StepResult(instr, lvn, e) == [instr |-> instr, lvn |-> lvn, err |-> e]

\* The id path, l2 being the table after _ensure_var_id(src, lvn).
LVNId(instr, l2) ==
    LET src == instr.args[1]
        src_vid == l2.current_status[src]
        canon == IF src_vid \in DOMAIN l2.id2canon
                 THEN l2.id2canon[src_vid] ELSE src
        hit == /\ canon \in DOMAIN l2.current_status
               /\ l2.current_status[canon] = src_vid
    IN StepResult(IF hit THEN [instr EXCEPT !.args = <<canon>>] ELSE instr,
                  [l2 EXCEPT
                     !.current_status = Put(@, instr.dest, src_vid),
                     !.id2canon = IF src_vid \in DOMAIN @ THEN @
                                  ELSE Put(@, src_vid, canon)],
                  None)

\* Memoization whose hit rewrites the instruction and leaves the destination
\* with the number it had.
LVNMemo_KeepsDestNumber(instr, l2, expr) ==
    IF expr \notin DOMAIN l2.expr2id
    THEN StepResult(instr,
                    [l2 EXCEPT
                       !.next_id = @ + 1,
                       !.expr2id = Put(@, expr, l2.next_id),
                       !.current_status = Put(@, instr.dest, l2.next_id),
                       !.id2canon = Put(@, l2.next_id, instr.dest)],
                    None)
    ELSE LET expr_id == l2.expr2id[expr]
             canon_var == l2.id2canon[expr_id]
             hit == /\ canon_var \in DOMAIN l2.current_status
                    /\ l2.current_status[canon_var] = expr_id
         IN StepResult(IF hit
                       THEN [instr EXCEPT !.op = "id", !.args = <<canon_var>>]
                       ELSE instr,
                       l2,
                       None)

\* Memoization whose hit rewrites the instruction to a copy of the canonical
\* variable whatever that variable holds now.
LVNMemo_RewritesOnStale(instr, l2, expr) ==
    IF expr \notin DOMAIN l2.expr2id
    THEN StepResult(instr,
                    [l2 EXCEPT
                       !.next_id = @ + 1,
                       !.expr2id = Put(@, expr, l2.next_id),
                       !.current_status = Put(@, instr.dest, l2.next_id),
                       !.id2canon = Put(@, l2.next_id, instr.dest)],
                    None)
    ELSE StepResult([instr EXCEPT !.op = "id",
                                  !.args = <<l2.id2canon[l2.expr2id[expr]]>>],
                    [l2 EXCEPT !.current_status =
                                  Put(@, instr.dest, l2.expr2id[expr])],
                    None)

\* Memoization of the key expr, l2 being the table _get_expr left.
LVNMemo(instr, l2, expr) ==
    IF expr \notin DOMAIN l2.expr2id
    THEN StepResult(instr,
                    [l2 EXCEPT
                       !.next_id = @ + 1,
                       !.expr2id = Put(@, expr, l2.next_id),
                       !.current_status = Put(@, instr.dest, l2.next_id),
                       !.id2canon = Put(@, l2.next_id, instr.dest)],
                    None)
    ELSE LET expr_id == l2.expr2id[expr]
             canon_var == l2.id2canon[expr_id]
             hit == /\ canon_var \in DOMAIN l2.current_status
                    /\ l2.current_status[canon_var] = expr_id
         IN StepResult(IF hit
                       THEN [instr EXCEPT !.op = "id", !.args = <<canon_var>>]
                       ELSE instr,
                       [l2 EXCEPT !.current_status = Put(@, instr.dest, expr_id)],
                       None)

\* expr = _get_expr(op, instr, lvn) and what follows it.
LVNExprOf(instr, l2) == LVNMemo(instr, l2, _get_expr(instr.op, instr, l2))

\* The iteration after the arguments were canonicalized.
LVNAfterArgs(instr, lvn) ==
    IF instr.dest = None THEN StepResult(instr, lvn, None)
    ELSE IF instr.op = "id"
    THEN LVNId(instr, _ensure_var_id(instr.args[1], lvn))
    ELSE IF Unsupported(instr.op) THEN StepResult(instr, lvn, "ValueError")
    ELSE LVNExprOf(instr, IF instr.op = "const" THEN lvn
                          ELSE EnsureAll(instr.args, 1, lvn))

\* instr["args"] = rewritten_args, c being what the canonicalization loop left.
LVNWithArgs(instr0, c) == LVNAfterArgs([instr0 EXCEPT !.args = c.args], c.lvn)

\* The body of `for instr in block`.
LVNStep(instr0, lvn0) ==
    IF instr0.op = None \/ instr0.op \in TERMINATORS
    THEN StepResult(instr0, lvn0, None)
    ELSE LVNWithArgs(instr0, CanonArgs(instr0.args, 1, lvn0, <<>>))

\* `for instr in block`, from index i; the exception leaves the rest as it was.
RECURSIVE LVNLoop(_, _, _)

\* The loop going on after an iteration that raised.
LVNNext_GoesOn(block, i, r) ==
    LVNLoop([block EXCEPT ![i] = r.instr], i + 1, r.lvn)

\* The block with instruction i as the iteration left it, and the loop going
\* on unless the iteration raised.
LVNNext(block, i, r) ==
    IF r.err # None
    THEN [block |-> [block EXCEPT ![i] = r.instr], lvn |-> r.lvn, err |-> r.err]
    ELSE LVNLoop([block EXCEPT ![i] = r.instr], i + 1, r.lvn)

LVNLoop(block, i, lvn) ==
    IF i > Len(block) THEN [block |-> block, lvn |-> lvn, err |-> None]
    ELSE LVNNext(block, i, LVNStep(block[i], lvn))

local_value_numbering(block) == LVNLoop(block, 1, LVNTable)

-----------------------------------------------------------------------------
(* driver.py: _run_lvn. *)

\* for block in blks.label_map.values(): local_value_numbering(block)
\* The exception of one block leaves the later blocks untouched.
RECURSIVE RunLvnFrom(_, _)

RunLvnNext(lm, b, r) ==
    IF r.err # None
    THEN [label_map |-> [lm EXCEPT ![b].instrs = r.block], err |-> r.err]
    ELSE RunLvnFrom([lm EXCEPT ![b].instrs = r.block], b + 1)

RunLvnFrom(lm, b) ==
    IF b > Len(lm) THEN [label_map |-> lm, err |-> None]
    ELSE RunLvnNext(lm, b, local_value_numbering(lm[b].instrs))

_run_lvn(lm) == RunLvnFrom(lm, 1)

-----------------------------------------------------------------------------
(* driver.py: output_json_prog, the instrs list of one function. *)

\* {block_id: label for label, block_id in blks.label_to_block_id.items()}
\* (close_block maps distinct labels to distinct ids, so no key is set twice)
Invert(l2b) ==
    [b \in {l2b[l] : l \in DOMAIN l2b} |-> CHOOSE l \in DOMAIN l2b : l2b[l] = b]

RECURSIVE Relinearize(_, _, _)
Relinearize(lm, block_id_to_label, i) ==
    IF i > Len(lm) THEN <<>>
    ELSE (IF lm[i].id \in DOMAIN block_id_to_label
          THEN <<LabelInstr(block_id_to_label[lm[i].id])>> ELSE <<>>)
         \o lm[i].instrs
         \o Relinearize(lm, block_id_to_label, i + 1)

output_json_prog(lm, l2b) == Relinearize(lm, Invert(l2b), 1)

-----------------------------------------------------------------------------
(* driver.py: run_driver, for a program of one function. *)

PASS_REGISTRY == {"dce-local", "dce-global", "dce", "lvn"}

\* The parameters of form_blocks, in order.
FormBlocksParams == <<"body", "name">>

\* The keyword arguments of run_driver's call of form_blocks, after its two
\* positional ones.
FormBlocksKeywords == {"function_meta"}

\* Python binds a call of npos positional arguments and the keywords kw to
\* the parameters params; a call it cannot bind raises TypeError.
Binds(params, npos, kw) ==
    /\ npos <= Len(params)
    /\ \A k \in kw : \E i \in (npos + 1)..Len(params) : params[i] = k

\* A function's metadata without fields; the default of BlockInfo.function_meta.
NoMeta == [k \in {} |-> None]

\* func_meta: the fields of func other than name and instrs.
FuncMeta(func) ==
    [k \in DOMAIN func \ {"name", "instrs"} |-> func[k]]

\* PASS_REGISTRY[p].run(blks): the label_map it leaves and what it raised.
RunRegistered(p, lm) ==
    IF p = "lvn" THEN _run_lvn(lm)
    ELSE [label_map |-> IF p = "dce-local" THEN dce_local_only(lm)
                        ELSE IF p = "dce-global" THEN dce_global_only(lm)
                        ELSE dce_both(lm),
          err |-> None]

\* `for p in pipeline: PASS_REGISTRY[p].run(blks)`, from index i.
RECURSIVE RunPipeline(_, _, _)

RunPipelineNext(r, pipeline, i) ==
    IF r.err # None THEN r ELSE RunPipeline(r.label_map, pipeline, i + 1)

RunPipeline(lm, pipeline, i) ==
    IF i > Len(pipeline) THEN [label_map |-> lm, err |-> None]
    ELSE RunPipelineNext(RunRegistered(pipeline[i], lm), pipeline, i)

\* What run_driver leaves: the value it returned (none when it raised), the
\* exception it raised, and the function objects output_json_prog printed.
DriverResult(ret, e, emitted) == [ret |-> ret, err |-> e, out |-> emitted]

\* The function object output_json_prog builds from a BlockInfo.
FuncObj(name, function_meta, lm, l2b) ==
    [name |-> name,
     meta |-> [k \in DOMAIN function_meta \ {"name", "instrs"} |->
                 function_meta[k]],
     instrs |-> output_json_prog(lm, l2b)]

\* The end of the loop body and of run_driver, the passes having run.
DriverEmit(name, l2b, r, opts) ==
    IF r.err # None THEN DriverResult(<<>>, r.err, <<>>)
    ELSE IF (opts.do_cfg \/ opts.cfg_format # "")
            /\ form_cfg(r.label_map, l2b).err # None
    THEN DriverResult(<<>>, form_cfg(r.label_map, l2b).err, <<>>)
    ELSE IF opts.do_cfg /\ opts.cfg_format \notin {"dot", "text", "both"}
    THEN DriverResult(<<1>>, None, <<>>)
    ELSE DriverResult(<<0>>, None,
                      IF opts.emit_json
                      THEN <<FuncObj(name, NoMeta, r.label_map, l2b)>>
                      ELSE <<>>)

\* The loop body from the blocks form_blocks returned.
DriverPasses(blks, pipeline, opts) ==
    DriverEmit(blks.function_name, blks.label_to_block_id,
               RunPipeline(blks.label_map, pipeline, 1), opts)

\* The loop body for func: the call of form_blocks and what follows it.
DriverFunc(func, pipeline, opts) ==
    IF ~Binds(FormBlocksParams, 2, FormBlocksKeywords)
    THEN DriverResult(<<>>, "TypeError", <<>>)
    ELSE DriverPasses(form_blocks(func.instrs, func.name), pipeline, opts)

\* run_driver(prog, pipeline=..., ...) for prog = {"functions": [func]}.
run_driver(func, pipeline, opts) ==
    IF \E i \in 1..Len(pipeline) : pipeline[i] \notin PASS_REGISTRY
    THEN DriverResult(<<1>>, None, <<>>)
    ELSE DriverFunc(func, pipeline, opts)

-----------------------------------------------------------------------------
(* Input alphabets. *)

IPrint(a) == Instr("print", None, <<a>>, <<>>, <<>>)
IConst(d, v) == Instr("const", d, <<>>, <<>>, <<v>>)
IId(d, a) == Instr("id", d, <<a>>, <<>>, <<>>)
IJmp(l) == Instr("jmp", None, <<>>, <<l>>, <<>>)
IBr(c, l1, l2) == Instr("br", None, <<c>>, <<l1, l2>>, <<>>)
IRet == Instr("ret", None, <<>>, <<>>, <<>>)

CfgInstrs ==
    {LabelInstr("L"), LabelInstr("b0"), IPrint("x"), IConst("x", 1),
     IJmp("L"), IBr("x", "L", "b0"), IRet}

DceInstrs ==
    {LabelInstr("L"), IConst("x", 1), IConst("y", 1), IId("x", "y"),
     IId("y", "x"), IPrint("x")}

IBin(op, d, a, b) == Instr(op, d, <<a, b>>, <<>>, <<>>)
IUn(op, d, a) == Instr(op, d, <<a>>, <<>>, <<>>)

LvnInstrs ==
    {IConst("a", 1), IConst("b", 1), IId("b", "a"), IBin("add", "c", "a", "b"),
     IBin("add", "a", "b", "a"), IBin("sub", "c", "a", "b"),
     IBin("sub", "c", "b", "a"), IPrint("b"),
     IUn("print", "c", "a"), IUn("foo", "c", "a"), IRet}

\* The pipelines, the metadata and the options run_driver is called with.
Pipelines == {<<>>, <<"dce">>, <<"lvn", "dce-global">>, <<"nope">>}

Metas == {NoMeta, [k \in {"args"} |-> "x"]}

Options ==
    [do_cfg : BOOLEAN, cfg_format : {"", "text"}, emit_json : BOOLEAN]

\* The function object of the input program.
Func(instrs, meta) ==
    [k \in {"name", "instrs"} \cup DOMAIN meta |->
        IF k = "name" THEN FuncName
        ELSE IF k = "instrs" THEN instrs
        ELSE meta[k]]

\* Streams in which the pass meets an operation it has no key for.
LvnFailInstrs ==
    {LabelInstr("L"), IId("b", "a"), IPrint("b"), IUn("foo", "c", "a"), IRet}

BoundedSeq(S, n) == UNION {[1..k -> S] : k \in 0..n}

-----------------------------------------------------------------------------
(* The state machine. *)

InitWith(streams) ==
    /\ body \in streams
    /\ phase = "start"
    /\ label_map = <<>>
    /\ label_to_block_id = [l \in {} |-> None]
    /\ successors = EmptyMap
    /\ predecessors = EmptyMap
    /\ err = None
    /\ out = <<>>
    /\ last = None
    /\ rep = 0
    /\ run = [pipeline |-> <<>>, func_meta |-> NoMeta,
              result |-> DriverResult(<<>>, None, <<>>)]

Init == InitWith(BoundedSeq(CfgInstrs, MaxCfgLen))

InitDce == InitWith(BoundedSeq(DceInstrs, MaxDceLen))

InitLvn == InitWith(BoundedSeq(LvnInstrs, MaxLvnLen))

InitLvnFail == InitWith(BoundedSeq(LvnFailInstrs, MaxFailLen))

FormBlocks ==
    /\ phase = "start"
    /\ LET blks == form_blocks(body, FuncName) IN
       /\ label_map' = blks.label_map
       /\ label_to_block_id' = blks.label_to_block_id
    /\ phase' = "blocks"
    /\ last' = "form_blocks"
    /\ rep' = 1
    /\ UNCHANGED <<body, successors, predecessors, err, out, run>>

\* An operation may be applied again while it has run fewer than MaxRep times
\* in a row.
MayRun(o) == phase = "blocks" /\ (last = o => rep < MaxRep)

Ran(o) ==
    /\ last' = o
    /\ rep' = IF last = o THEN rep + 1 ELSE 1

FormCfg ==
    /\ MayRun("cfg")
    /\ LET st == form_cfg(label_map, label_to_block_id) IN
       /\ successors' = st.successors
       /\ predecessors' = st.predecessors
       /\ err' = st.err
       /\ phase' = IF st.err # None THEN "failed" ELSE phase
    /\ Ran("cfg")
    /\ UNCHANGED <<body, label_map, label_to_block_id, out, run>>

\* A pass of PASS_REGISTRY that only rewrites label_map and cannot fail.
RunPass(name, result) ==
    /\ MayRun(name)
    /\ label_map' = result
    /\ Ran(name)
    /\ UNCHANGED <<body, phase, label_to_block_id, successors, predecessors,
                   err, out, run>>

DceLocalOnly == RunPass("dce-local", dce_local_only(label_map))

DceGlobalOnly == RunPass("dce-global", dce_global_only(label_map))

DceBoth == RunPass("dce", dce_both(label_map))

RunLvn ==
    /\ MayRun("lvn")
    /\ LET r == _run_lvn(label_map) IN
       /\ label_map' = r.label_map
       /\ err' = r.err
       /\ phase' = IF r.err # None THEN "failed" ELSE phase
    /\ Ran("lvn")
    /\ UNCHANGED <<body, label_to_block_id, successors, predecessors, out, run>>

OutputJson ==
    /\ phase = "blocks"
    /\ out' = output_json_prog(label_map, label_to_block_id)
    /\ phase' = "emitted"
    /\ UNCHANGED <<body, label_map, label_to_block_id, successors,
                   predecessors, err, last, rep, run>>

\* run_driver on the program whose one function has the stream body.
RunDriver ==
    /\ phase = "start"
    /\ \E pipeline \in Pipelines, meta \in Metas, opts \in Options :
          run' = [pipeline |-> pipeline,
                  func_meta |-> FuncMeta(Func(body, meta)),
                  result |-> run_driver(Func(body, meta), pipeline, opts)]
    /\ phase' = "driver"
    /\ last' = "run_driver"
    /\ rep' = 1
    /\ UNCHANGED <<body, label_map, label_to_block_id, successors,
                   predecessors, err, out>>

Next ==
    \/ FormBlocks
    \/ FormCfg
    \/ DceLocalOnly
    \/ DceGlobalOnly
    \/ DceBoth
    \/ RunLvn
    \/ OutputJson
    \/ RunDriver

Spec == Init /\ [][Next]_vars

SpecDce == InitDce /\ [][Next]_vars

SpecLvn == InitLvn /\ [][Next]_vars

SpecLvnFail == InitLvnFail /\ [][Next]_vars

-----------------------------------------------------------------------------
(* Vocabulary of the properties. *)

\* The step just taken applied operation o to the BlockInfo.
StepOf(o) == last' = o /\ (last # o \/ rep' = rep + 1)

\* The blocks form_blocks makes of the input stream.
FreshBlocks == form_blocks(body, FuncName).label_map

NonLabels(stream) == SelectSeq(stream, LAMBDA instr : ~is_label(instr))

\* The stream without the labels that no instruction follows directly.
RECURSIVE DropPendingLabels(_, _)
DropPendingLabels(stream, i) ==
    IF i > Len(stream) THEN <<>>
    ELSE (IF /\ is_label(stream[i])
             /\ (i = Len(stream) \/ is_label(stream[i + 1]))
          THEN <<>> ELSE <<stream[i]>>)
         \o DropPendingLabels(stream, i + 1)

EndsWithTerminator(block) == block # <<>> /\ block[Len(block)].op \in TERMINATORS

InstrCount(lm) ==
    Len(NonLabels(Relinearize(lm, [k \in {} |-> None], 1)))

-----------------------------------------------------------------------------
(* C1 -- form_blocks followed by re-linearization *)

\* C1: re-linearizing the blocks form_blocks produced (blocks in stored order,
\* a label before a block iff its id is in the inverted label_to_block_id)
\* gives back the input stream, every non-label instruction exactly once and
\* in order, except for the labels that were pending for an empty block.
C1_RelinearizeKeepsStream ==
    (phase = "emitted" /\ last = "form_blocks")
        => out = DropPendingLabels(body, 1)

-----------------------------------------------------------------------------
(* C2 -- how a block ends *)

\* C2 as stated: every block form_blocks produced ends with a terminator or
\* is the last block of the function.
C2_TerminatorOrLastBlock ==
    (phase = "blocks" /\ last = "form_blocks")
        => \A i \in 1..Len(label_map) :
              \/ EndsWithTerminator(label_map[i].instrs)
              \/ i = Len(label_map)

\* The block is a run body[s..e] of the stream that starts at the function
\* entry, after a label or after a terminator.
IsRunOfStream(block, s, e) ==
    /\ e - s + 1 = Len(block)
    /\ \A k \in 1..Len(block) : body[s + k - 1] = block[k]
    /\ (s = 1 \/ is_label(body[s - 1]) \/ body[s - 1].op \in TERMINATORS)

\* C2: every block form_blocks produced is a non-empty run of the stream that
\* ends with a terminator, or immediately before a label marker, or at the end
\* of the stream.
C2_BlockEndsAtTerminatorLabelOrEnd ==
    (phase = "blocks" /\ last = "form_blocks")
        => \A i \in 1..Len(label_map) :
              LET block == label_map[i].instrs IN
              /\ block # <<>>
              /\ \E s \in 1..Len(body), e \in 1..Len(body) :
                    /\ IsRunOfStream(block, s, e)
                    /\ \/ block[Len(block)].op \in TERMINATORS
                       \/ e = Len(body)
                       \/ is_label(body[e + 1])

\* A block that is not the last one and has no terminator: a label closed it.
C2_Witness ==
    /\ phase = "blocks" /\ last = "form_blocks"
    /\ \E i \in 1..(Len(label_map) - 1) :
          ~EndsWithTerminator(label_map[i].instrs)

-----------------------------------------------------------------------------
(* C3, C4, C5 -- form_cfg *)

CfgBuilt == last = "cfg" /\ err = None

InSeq(x, q) == \E i \in 1..Len(q) : q[i] = x

\* C3: after every successful form_cfg, first or repeated, every block is a
\* key of both maps and B is in successors[A] iff A is in predecessors[B].
C3_SuccPredInverse ==
    CfgBuilt =>
        /\ DOMAIN successors = Keys(label_map)
        /\ DOMAIN predecessors = Keys(label_map)
        /\ \A A \in Keys(label_map), B \in Keys(label_map) :
              InSeq(B, successors[A]) <=> InSeq(A, predecessors[B])

\* form_cfg has run twice in a row on a function with an edge.
C3_Witness ==
    /\ CfgBuilt /\ rep = 2
    /\ \E A \in DOMAIN successors : successors[A] # <<>>

\* Some block ends in a jmp or br naming a label without a block.
HasUnresolvedTarget(lm, l2b) ==
    \E i \in 1..Len(lm) :
        LET block == lm[i].instrs IN
        /\ block # <<>>
        /\ block[Len(block)].op \in {"jmp", "br"}
        /\ \E k \in 1..Len(block[Len(block)].labels) :
              block[Len(block)].labels[k] \notin DOMAIN l2b

\* C4: whenever some block's last instruction is a jmp or br to a label with
\* no entry in label_to_block_id, form_cfg fails (KeyError, the UnresolvedLabel
\* signal); it never completes in that case.
C4_UnresolvedLabelFails ==
    (last = "cfg" /\ HasUnresolvedTarget(label_map, label_to_block_id))
        => (err = "KeyError" /\ phase = "failed")

\* form_cfg failed on a target whose label is in the stream but lost its
\* block to the empty-block rule.
C4_Witness ==
    /\ last = "cfg" /\ err = "KeyError"
    /\ \E i \in 1..Len(body), j \in 1..Len(body) :
          /\ body[i].op \in {"jmp", "br"}
          /\ is_label(body[j])
          /\ InSeq(body[j].label, body[i].labels)
          /\ body[j].label \notin DOMAIN label_to_block_id

-----------------------------------------------------------------------------
(* C6 -- simple_dce *)

\* C6: when simple_dce returns, the destination of every remaining instruction
\* that has one occurs as an argument of some remaining instruction.
C6_GlobalDceLeavesOnlyUsedDests ==
    (last = "dce-global") =>
        \A b \in 1..Len(label_map) : \A i \in 1..Len(label_map[b].instrs) :
            LET d == label_map[b].instrs[i].dest IN
            d # None =>
                \E b2 \in 1..Len(label_map) :
                    \E j \in 1..Len(label_map[b2].instrs) :
                        InSeq(d, label_map[b2].instrs[j].args)

\* simple_dce removed an instruction of the fresh blocks and left a definition
\* in place.
C6_Witness ==
    /\ last = "dce-global"
    /\ label_map = simple_dce(FreshBlocks)
    /\ InstrCount(label_map) < InstrCount(FreshBlocks)
    /\ \E b \in 1..Len(label_map) : \E i \in 1..Len(label_map[b].instrs) :
          label_map[b].instrs[i].dest # None

-----------------------------------------------------------------------------
(* C7, C8 -- local_dce *)

\* C7: local_dce run on the blocks a previous local_dce run returned removes
\* nothing and leaves every block's instruction sequence identical.
C7_LocalDceIdempotent ==
    [][(last = "dce-local" /\ StepOf("dce-local")) => label_map' = label_map]_vars

\* local_dce has run twice in a row and the first run removed an instruction.
C7_Witness ==
    /\ last = "dce-local" /\ rep = 2
    /\ label_map = dce_local_only(FreshBlocks)
    /\ InstrCount(label_map) < InstrCount(FreshBlocks)

\* The occurrence at position p of snap is overwritten before any use: a later
\* instruction defines the same destination and no instruction after p, up to
\* and including that one, reads it.
OverwrittenBeforeUse(snap, p) ==
    /\ snap[p].dest # None
    /\ \E j \in (p + 1)..Len(snap) :
          /\ snap[j].dest = snap[p].dest
          /\ \A k \in (p + 1)..j : ~InSeq(snap[p].dest, snap[k].args)

\* C8: every occurrence local_dce removes from a block is the candidate
\* occurrence itself, an occurrence overwritten before any use, also in blocks
\* holding several instructions with identical fields.
C8_LocalDceRemovesTheCandidate ==
    [][StepOf("dce-local") =>
         \A b \in 1..Len(label_map) :
            LET trace == local_dce(label_map[b].instrs).trace IN
            \A t \in 1..Len(trace) : \A n \in 1..Len(trace[t].events) :
                /\ trace[t].events[n].removed = trace[t].events[n].cand
                /\ OverwrittenBeforeUse(trace[t].snap, trace[t].events[n].removed)
      ]_vars

-----------------------------------------------------------------------------
(* C9 -- dce_both *)

\* C9: dce_both applied to the result of dce_both removes no instruction.
C9_DceBothIdempotent ==
    [][(last = "dce" /\ StepOf("dce")) => label_map' = label_map]_vars

-----------------------------------------------------------------------------
(* C10 -- the operations local value numbering supports *)

\* The operations the claim allows an expression key for.
ClaimedKeyOps == {"const", "add", "mul", "sub", "div"}

\* A non-terminator instruction with a destination whose op is neither id nor
\* one of ClaimedKeyOps.
OutsideSupportedSet(instr) ==
    /\ instr.op # None /\ instr.op \notin TERMINATORS
    /\ instr.dest # None
    /\ instr.op \notin ClaimedKeyOps \cup {"id"}

\* C10: local_value_numbering fails (ValueError, the UnsupportedOperation
\* signal) when a block holds such an instruction, and no operation outside
\* const, add, mul, sub, div is given an expression key or memoized.
C10_UnsupportedOperationFails ==
    [][StepOf("lvn") =>
         /\ (\E b \in 1..Len(label_map) : \E i \in 1..Len(label_map[b].instrs) :
                OutsideSupportedSet(label_map[b].instrs[i]))
               => err' = "ValueError"
         /\ \A b \in 1..Len(label_map) :
               \A e \in DOMAIN local_value_numbering(label_map[b].instrs).lvn.expr2id :
                   e[1] \in ClaimedKeyOps
      ]_vars

-----------------------------------------------------------------------------
(* Vocabulary of the local value numbering properties.                     *)
(* The pass walks a block left to right with one table, so the table it    *)
(* holds on reaching instruction i is the one it leaves on the prefix.     *)

\* The run of local_value_numbering on the instructions before position i.
Before(block, i) == local_value_numbering(SubSeq(block, 1, i - 1))

\* The pass reaches instruction i of the block.
Reaches(block, i) == i \in 1..Len(block) /\ Before(block, i).err = None

\* Instruction i is one the pass looks at: neither label nor terminator.
Numbered(block, i) == block[i].op # None /\ block[i].op \notin TERMINATORS

\* The table and arguments after the canonicalization loop of instruction i.
Canon(block, i) == CanonArgs(block[i].args, 1, Before(block, i).lvn, <<>>)

\* What the iteration for instruction i leaves.
StepAt(block, i) == LVNStep(block[i], Before(block, i).lvn)

\* The value number operand k of instruction i carries when it is read.
OperandVN(block, i, k) == Canon(block, i).lvn.current_status[block[i].args[k]]

\* Instruction i is a two-operand op with a destination.
Binary(block, i, ops) ==
    /\ block[i].op \in ops /\ block[i].dest # None /\ Len(block[i].args) = 2

\* Instructions i and j carry the same pair of value numbers, in either order.
SamePair(block, i, j) ==
    \/ /\ OperandVN(block, i, 1) = OperandVN(block, j, 1)
       /\ OperandVN(block, i, 2) = OperandVN(block, j, 2)
    \/ /\ OperandVN(block, i, 1) = OperandVN(block, j, 2)
       /\ OperandVN(block, i, 2) = OperandVN(block, j, 1)

\* Instructions i and j carry the same value numbers in the same order.
SameOrderedPair(block, i, j) ==
    /\ OperandVN(block, i, 1) = OperandVN(block, j, 1)
    /\ OperandVN(block, i, 2) = OperandVN(block, j, 2)

\* The blocks of label_map the lvn step reaches (a failing block ends the step).
LvnReachesBlock(b) ==
    \A b0 \in 1..(b - 1) : local_value_numbering(label_map[b0].instrs).err = None

-----------------------------------------------------------------------------
(* C11 -- commutative keys *)

\* C11 for one block and its image under the pass.
CommutativeCSE(block, image) ==
    \A i \in 1..Len(block), j \in 1..Len(block) :
        (i < j /\ Reaches(block, j) /\ StepAt(block, j).err = None
           /\ block[i].op = block[j].op) =>
        /\ (/\ Binary(block, i, COMMUTATIVE) /\ Binary(block, j, COMMUTATIVE)
            /\ SamePair(block, i, j)
            /\ \A k \in 1..(i - 1) :
                  ~(Binary(block, k, {block[i].op}) /\ SamePair(block, k, i)))
           => LET vn == StepAt(block, i).lvn.current_status[block[i].dest]
                  now == Canon(block, j).lvn.current_status
              IN /\ StepAt(block, j).lvn.current_status[block[j].dest] = vn
                 /\ (block[i].dest \in DOMAIN now /\ now[block[i].dest] = vn)
                       => /\ image[j].op = "id"
                          /\ image[j].args = <<block[i].dest>>
        /\ (/\ Binary(block, j, {"sub", "div"})
            /\ \A k \in 1..(j - 1) :
                  ~(Binary(block, k, {block[j].op}) /\ SameOrderedPair(block, k, j)))
           => image[j].op = block[j].op

\* C11: two add (or two mul) instructions of a block whose operands carry
\* the same pair of value numbers, in either order, get the same value
\* number, and the later one becomes `id <destination of the first>` when
\* that destination still holds the value number; a sub or div is rewritten
\* only when an earlier one carried the same value numbers in the same order
\* (operands in swapped order are no CSE hit).
C11_CommutativeKeys ==
    [][StepOf("lvn") =>
         \A b \in 1..Len(label_map) :
            LvnReachesBlock(b) =>
                CommutativeCSE(label_map[b].instrs, label_map'[b].instrs)
      ]_vars

\* The pass has rewritten an add whose operands, of different value numbers,
\* came in the other order than those of the add before it.
C11_Witness ==
    /\ last = "lvn" /\ err = None
    /\ \E b \in 1..Len(label_map) :
          LET block == FreshBlocks[b].instrs
              image == label_map[b].instrs
          IN /\ label_map = _run_lvn(FreshBlocks).label_map
             /\ \E i \in 1..Len(block), j \in 1..Len(block) :
                   /\ i < j
                   /\ Binary(block, i, COMMUTATIVE) /\ Binary(block, j, COMMUTATIVE)
                   /\ block[i].op = block[j].op
                   /\ OperandVN(block, i, 1) # OperandVN(block, i, 2)
                   /\ OperandVN(block, i, 1) = OperandVN(block, j, 2)
                   /\ OperandVN(block, i, 2) = OperandVN(block, j, 1)
                   /\ image[j].op = "id"

-----------------------------------------------------------------------------
(* C12 -- rerunning local value numbering *)

\* The op and the args of every instruction of every block.
OpsAndArgs(lm) ==
    [b \in 1..Len(lm) |->
        [i \in 1..Len(lm[b].instrs) |->
            <<lm[b].instrs[i].op, lm[b].instrs[i].args>>]]

\* C12: local value numbering run a second time on the blocks a successful
\* run rewrote succeeds and changes no instruction's op or args.
C12_LvnIdempotent ==
    [][(last = "lvn" /\ err = None /\ StepOf("lvn")) =>
          /\ err' = None
          /\ OpsAndArgs(label_map') = OpsAndArgs(label_map)]_vars

\* The pass has run twice in a row and its first run rewrote an instruction
\* of the fresh blocks.
C12_Witness ==
    /\ last = "lvn" /\ rep = 2 /\ err = None
    /\ label_map = _run_lvn(FreshBlocks).label_map
    /\ OpsAndArgs(label_map) # OpsAndArgs(FreshBlocks)

-----------------------------------------------------------------------------
(* C13 -- run_driver and the metadata of the function *)

\* C13: a call of run_driver with a pipeline of registered passes returns 0
\* and, where it emits the program, the function object carries every
\* metadata field of the input function unchanged.
C13_DriverKeepsMetadata ==
    (phase = "driver" /\ SeqToSet(run.pipeline) \subseteq PASS_REGISTRY) =>
        /\ run.result.err = None
        /\ run.result.ret = <<0>>
        /\ \A f \in 1..Len(run.result.out) :
              \A k \in DOMAIN run.func_meta :
                  /\ k \in DOMAIN run.result.out[f].meta
                  /\ run.result.out[f].meta[k] = run.func_meta[k]

-----------------------------------------------------------------------------
(* C14 -- an argument is rewritten only to a variable of the same number *)

\* Argument k of instruction i was replaced by the variable the image holds
\* there; a memoization hit, which replaces the whole instruction, aside.
Replaced(block, image, i, k) ==
    /\ image[i].op = block[i].op
    /\ k \in 1..Len(block[i].args)
    /\ image[i].args[k] # block[i].args[k]

\* In the table the pass holds while it rewrites the arguments of
\* instruction i, variable c holds the number argument k holds.
SameNumberAt(block, i, k, c) ==
    LET st == Canon(block, i).lvn.current_status
    IN /\ c \in DOMAIN st
       /\ st[c] = st[block[i].args[k]]

ReplacedOnlyBySameNumber(block, image) ==
    \A i \in 1..Len(block) : \A k \in 1..Len(block[i].args) :
        (Reaches(block, i) /\ Numbered(block, i) /\ Replaced(block, image, i, k))
            => SameNumberAt(block, i, k, image[i].args[k])

\* C14: whenever local value numbering replaces an argument a of an
\* instruction by a variable c, in the generic canonicalization or on the id
\* path, c's current value number equals a's at that moment.
C14_RewriteOnlyToSameNumber ==
    [][StepOf("lvn") =>
          \A b \in 1..Len(label_map) :
              LvnReachesBlock(b) =>
                  ReplacedOnlyBySameNumber(label_map[b].instrs,
                                           label_map'[b].instrs)]_vars

\* The instruction i of block whose argument k is a copy of a variable that
\* was redefined afterwards: that variable is still recorded as canonical for
\* the number of the argument and holds another number.
StaleCanonArg(block, i, k) ==
    LET t == Canon(block, i).lvn
        a == block[i].args[k]
    IN /\ t.current_status[a] \in DOMAIN t.id2canon
       /\ t.id2canon[t.current_status[a]] # a
       /\ t.current_status[t.id2canon[t.current_status[a]]] # t.current_status[a]

\* The pass has run on fresh blocks, replaced an argument of one instruction
\* and left alone an argument whose canonical variable had been redefined.
C14_Witness ==
    /\ last = "lvn" /\ rep = 1
    /\ label_map = _run_lvn(FreshBlocks).label_map
    /\ \E b \in 1..Len(label_map) :
          LET block == FreshBlocks[b].instrs
              image == label_map[b].instrs
          IN /\ LvnReachesBlock(b)
             /\ \E i \in 1..Len(block), k \in 1..2 :
                   Reaches(block, i) /\ Numbered(block, i)
                   /\ Replaced(block, image, i, k)
    /\ \E b \in 1..Len(label_map) :
          LET block == FreshBlocks[b].instrs
              image == label_map[b].instrs
          IN \E i \in 1..Len(block) :
                /\ Reaches(block, i) /\ Numbered(block, i)
                /\ Len(block[i].args) >= 1
                /\ StaleCanonArg(block, i, 1)
                /\ image[i].args[1] = block[i].args[1]

-----------------------------------------------------------------------------
(* C15 -- a memoized key whose canonical variable was redefined *)

\* Instruction i of block goes through the memoization.
Memoized(block, i) ==
    /\ Reaches(block, i) /\ Numbered(block, i)
    /\ block[i].dest # None
    /\ block[i].op # "id"
    /\ ~Unsupported(block[i].op)

\* The table in which the key of instruction i is looked up, and the key.
KeyTable(block, i) ==
    IF block[i].op = "const" THEN Canon(block, i).lvn
    ELSE EnsureAll(Canon(block, i).args, 1, Canon(block, i).lvn)

KeyAt(block, i) ==
    _get_expr(block[i].op, [block[i] EXCEPT !.args = Canon(block, i).args],
              KeyTable(block, i))

\* The key of instruction i is memoized and the canonical variable of its
\* number holds another number.
StaleHit(block, i) ==
    LET t == KeyTable(block, i)
        e == KeyAt(block, i)
    IN /\ Memoized(block, i)
       /\ e \in DOMAIN t.expr2id
       /\ \/ t.id2canon[t.expr2id[e]] \notin DOMAIN t.current_status
          \/ t.current_status[t.id2canon[t.expr2id[e]]] # t.expr2id[e]

\* What the claim says of such an instruction, image being the block the
\* pass left.
StaleHitNumbersOnly(block, image, i) ==
    LET t == KeyTable(block, i)
        V == t.expr2id[KeyAt(block, i)]
        after == StepAt(block, i).lvn
    IN /\ image[i].op = block[i].op
       /\ image[i].args = Canon(block, i).args
       /\ after.current_status[block[i].dest] = V
       /\ after.id2canon[V] = t.id2canon[V]

\* C15: an instruction whose key is memoized to V while the canonical
\* variable of V holds another number keeps its op and its canonicalized
\* args; its destination gets number V and the canonical variable recorded
\* for V stays.
C15_StaleHitKeepsInstruction ==
    [][StepOf("lvn") =>
          \A b \in 1..Len(label_map) :
              LvnReachesBlock(b) =>
                  \A i \in 1..Len(label_map[b].instrs) :
                      StaleHit(label_map[b].instrs, i) =>
                          StaleHitNumbersOnly(label_map[b].instrs,
                                              label_map'[b].instrs, i)]_vars

\* The pass has run on fresh blocks one of whose instructions hit a key
\* whose canonical variable had been redefined.
C15_Witness ==
    /\ last = "lvn" /\ rep = 1
    /\ label_map = _run_lvn(FreshBlocks).label_map
    /\ \E b \in 1..Len(label_map) :
          /\ LvnReachesBlock(b)
          /\ \E i \in 1..Len(FreshBlocks[b].instrs) :
                /\ StaleHit(FreshBlocks[b].instrs, i)
                /\ label_map[b].instrs[i].op # "id"

-----------------------------------------------------------------------------
(* C16 -- the pass leaves a block half rewritten when it fails *)

\* The pass fails at instruction i of block.
FailsAt(block, i) == Reaches(block, i) /\ StepAt(block, i).err # None

\* image is block with the instructions before i as the pass had rewritten
\* them when it reached i, and the instructions after i as they were.
HalfRewritten(block, image, i) ==
    /\ Len(image) = Len(block)
    /\ \A j \in 1..(i - 1) : image[j] = Before(block, i).block[j]
    /\ \A j \in (i + 1)..Len(block) : image[j] = block[j]

\* C16: when local value numbering fails at instruction i of a block, the
\* instructions before i keep the rewrites applied to them and the
\* instructions after i are as they were before the pass.
C16_NoRollbackOnFailure ==
    [][StepOf("lvn") =>
          \A b \in 1..Len(label_map) :
              LvnReachesBlock(b) =>
                  \A i \in 1..Len(label_map[b].instrs) :
                      FailsAt(label_map[b].instrs, i) =>
                          /\ err' = "ValueError"
                          /\ HalfRewritten(label_map[b].instrs,
                                           label_map'[b].instrs, i)]_vars

\* The pass has failed on a fresh block after it rewrote an earlier
\* instruction, and an equal instruction after the failing one is as it was.
C16_Witness ==
    /\ last = "lvn" /\ rep = 1 /\ err = "ValueError"
    /\ label_map = _run_lvn(FreshBlocks).label_map
    /\ \E b \in 1..Len(label_map) :
          LET block == FreshBlocks[b].instrs
              image == label_map[b].instrs
          IN /\ LvnReachesBlock(b)
             /\ \E i \in 1..Len(block) :
                   /\ FailsAt(block, i)
                   /\ \E j \in 1..(i - 1), k \in (i + 1)..Len(block) :
                         /\ image[j] # block[j]
                         /\ block[k] = block[j]
                         /\ image[k] = block[k]

-----------------------------------------------------------------------------
(* C17 -- the global pass terminates *)

\* The blocks after k full passes of simple_dce's loop body.
RECURSIVE Passes(_, _)
Passes(lm, k) == IF k = 0 THEN lm ELSE SimpleDcePass(Passes(lm, k - 1))

\* Full pass k removes an instruction.
Removes(lm, k) == InstrCount(Passes(lm, k)) < InstrCount(Passes(lm, k - 1))

\* simple_dce stops after n passes: each pass before the n-th removed an
\* instruction, the n-th removed none, and no pass added one.
StopsAfter(lm, result, n) ==
    /\ result = Passes(lm, n)
    /\ \A k \in 1..(n - 1) : Removes(lm, k)
    /\ ~Removes(lm, n)
    /\ \A k \in 1..n : InstrCount(Passes(lm, k)) <= InstrCount(Passes(lm, k - 1))

\* C17: the global pass stops after at most one full pass more than the
\* function has instructions: every pass but the last removes an
\* instruction, the last removes none, and the instruction count never grows.
C17_GlobalDceTerminates ==
    [][StepOf("dce-global") =>
          \E n \in 1..(InstrCount(label_map) + 1) :
              StopsAfter(label_map, label_map', n)]_vars

\* The pass has run on fresh blocks and needed a third full pass: its first
\* two passes each removed an instruction.
C17_Witness ==
    /\ last = "dce-global" /\ rep = 1
    /\ label_map = Passes(FreshBlocks, 3)
    /\ Removes(FreshBlocks, 1)
    /\ Removes(FreshBlocks, 2)

-----------------------------------------------------------------------------
(* C18 -- a label with no instruction after it *)

\* The label at position p of the stream is followed by a label or by the
\* end of the stream.
EmptyLabel(instrs, p) ==
    /\ is_label(instrs[p])
    /\ p = Len(instrs) \/ is_label(instrs[p + 1])

\* The label at position p is followed by an instruction.
HeadLabel(instrs, p) ==
    /\ is_label(instrs[p])
    /\ p < Len(instrs) /\ ~is_label(instrs[p + 1])

\* The state of form_blocks' loop after the first p elements of the stream.
FBAfter(instrs, p) == FBLoop(FBInit, SubSeq(instrs, 1, p), 1, FuncName)

\* The state once form_blocks has dealt with what follows the label at p:
\* the next label, or the trailing close_block.
FBPast(instrs, p) ==
    IF p = Len(instrs) THEN close_block(FBAfter(instrs, p), FuncName)
    ELSE FBAfter(instrs, p + 1)

\* The label at p has left nothing: the two dicts are as they were when the
\* label was read, and the pending label is the one that follows, if any.
LeavesNothing(instrs, p) ==
    /\ FBAfter(instrs, p).current_label = instrs[p].label
    /\ FBPast(instrs, p).label_map = FBAfter(instrs, p).label_map
    /\ FBPast(instrs, p).label_to_block_id = FBAfter(instrs, p).label_to_block_id
    /\ FBPast(instrs, p).current_block = <<>>
    /\ p < Len(instrs) => FBPast(instrs, p).current_label = instrs[p + 1].label

\* C18: a label of the stream followed by another label or by the end of the
\* stream adds no block and no entry of label_to_block_id; a label has an
\* entry only for an occurrence that an instruction follows, and that entry
\* names the block after the label itself.
C18_EmptyLabelLeavesNothing ==
    phase \in {"blocks", "emitted", "failed"} =>
        /\ \A p \in 1..Len(body) :
              EmptyLabel(body, p) =>
                  /\ LeavesNothing(body, p)
                  /\ body[p].label \in DOMAIN label_to_block_id =>
                        \E q \in 1..Len(body) :
                            HeadLabel(body, q) /\ body[q].label = body[p].label
        /\ \A p \in 1..Len(body) :
              HeadLabel(body, p) =>
                  /\ body[p].label \in DOMAIN label_to_block_id
                  /\ label_to_block_id[body[p].label] =
                        FuncName \o "::" \o body[p].label

\* form_blocks has read a label followed at once by another label and then
\* an instruction: the first has no entry, the second has.
C18_Witness ==
    /\ last = "form_blocks"
    /\ \E p \in 1..(Len(body) - 2) :
          /\ EmptyLabel(body, p)
          /\ HeadLabel(body, p + 1)
          /\ body[p].label \notin DOMAIN label_to_block_id
          /\ body[p + 1].label \in DOMAIN label_to_block_id
          /\ Len(label_map) = 1

-----------------------------------------------------------------------------
(* C19 -- what the DCE passes may remove *)

\* s is a subsequence of t: the elements of s occur in t in the same order.
RECURSIVE IsSubseq(_, _)
IsSubseq(s, t) ==
    IF s = <<>> THEN TRUE
    ELSE IF t = <<>> THEN FALSE
    ELSE IF Head(s) = Head(t) THEN IsSubseq(Tail(s), Tail(t))
    ELSE IsSubseq(s, Tail(t))

\* The instructions of block that have no destination, in order.
Effects(block) == SelectSeq(block, LAMBDA instr : get_dest(instr) = None)

\* after keeps the blocks of before, each a subsequence of what it was with
\* all its instructions without destination.
OnlyDestsRemoved(before, after) ==
    /\ Len(after) = Len(before)
    /\ \A b \in 1..Len(before) :
          /\ after[b].id = before[b].id
          /\ IsSubseq(after[b].instrs, before[b].instrs)
          /\ Effects(after[b].instrs) = Effects(before[b].instrs)

\* C19: every DCE pass (global, local, both) leaves each block a subsequence
\* of what it was that still holds every instruction without a destination.
C19_DceRemovesOnlyDests ==
    [][(StepOf("dce-global") \/ StepOf("dce-local") \/ StepOf("dce")) =>
          OnlyDestsRemoved(label_map, label_map')]_vars

\* Both passes have run on fresh blocks, each removed an instruction, and an
\* instruction without destination is left.
C19_Witness ==
    /\ last = "dce" /\ rep = 1
    /\ label_map = dce_both(FreshBlocks)
    /\ InstrCount(simple_dce(FreshBlocks)) < InstrCount(FreshBlocks)
    /\ InstrCount(label_map) < InstrCount(simple_dce(FreshBlocks))
    /\ \E b \in 1..Len(label_map) : Effects(label_map[b].instrs) # <<>>

-----------------------------------------------------------------------------
(* C20 -- block identifiers *)

\* The identifier close_block gives the block it closes in state st.
IdAt(st) ==
    IF st.current_label # None THEN FuncName \o "::" \o st.current_label
    ELSE block_id_generator(FuncName, st.gen)

\* The accumulator when step p of form_blocks closes, step Len + 1 being the
\* trailing close_block.
AccAt(instrs, p) ==
    IF p <= Len(instrs) /\ ~is_label(instrs[p])
    THEN Append(FBAfter(instrs, p - 1).current_block, instrs[p])
    ELSE FBAfter(instrs, p - 1).current_block

\* Step p closes a non-empty block.
ClosesAt(instrs, p) ==
    /\ AccAt(instrs, p) # <<>>
    /\ \/ p = Len(instrs) + 1
       \/ is_label(instrs[p])
       \/ instrs[p].op \in TERMINATORS

\* The non-empty blocks form_blocks closes from step p on, in order, each
\* with the identifier it is given.
RECURSIVE Closed(_, _)
Closed(instrs, p) ==
    IF p > Len(instrs) + 1 THEN <<>>
    ELSE (IF ClosesAt(instrs, p)
          THEN <<[id |-> IdAt(FBAfter(instrs, p - 1)),
                  instrs |-> AccAt(instrs, p)]>>
          ELSE <<>>) \o Closed(instrs, p + 1)

\* C20: the identifiers form_blocks gives the non-empty blocks it closes are
\* pairwise distinct, so label_map holds every one of them, in order, with
\* its own instructions.
C20_BlockIdsDistinct ==
    last = "form_blocks" =>
        /\ \A i, j \in 1..Len(Closed(body, 1)) :
              i # j => Closed(body, 1)[i].id # Closed(body, 1)[j].id
        /\ label_map = Closed(body, 1)

-----------------------------------------------------------------------------
(* C21 -- the CFG after the passes *)

\* What form_cfg computes on the freshly formed blocks.
FreshCfg == form_cfg(FreshBlocks, label_to_block_id)

\* The block identifiers of lm, in order.
BlockIds(lm) == [b \in 1..Len(lm) |-> lm[b].id]

\* Some block of lm has no instruction.
HasEmptyBlock(lm) == \E b \in 1..Len(lm) : lm[b].instrs = <<>>

\* C21: the successors and predecessors form_cfg computes after any sequence
\* of the passes that completed are those it computes on the freshly formed
\* blocks, and the blocks keep their identifiers and their order, emptied
\* blocks included.
C21_CfgInvariantUnderPasses ==
    (last = "cfg" /\ FreshCfg.err = None) =>
        /\ err = None
        /\ BlockIds(label_map) = BlockIds(FreshBlocks)
        /\ successors = FreshCfg.successors
        /\ predecessors = FreshCfg.predecessors

\* form_cfg has run after passes that emptied one block and rewrote or
\* shortened the others, on a function with a jump.
C21_Witness ==
    /\ CfgBuilt
    /\ FreshCfg.err = None
    /\ label_map # FreshBlocks
    /\ HasEmptyBlock(label_map)
    /\ \E b \in 1..Len(label_map) : LastOp(label_map[b].instrs) \in {"jmp", "br"}
    /\ \E b \in 1..Len(label_map) :
          /\ label_map[b].instrs = <<>>
          /\ successors[label_map[b].id] # <<>>

=============================================================================
